---- MODULE Spec2Model ----
(***************************************************************************)
(* Model of imports/import_resources.py: the TerraformImporter bootstrap   *)
(* importer and its main() entry point.                                    *)
(*                                                                         *)
(* Strings are sequences of one-character strings, so that strip(),        *)
(* lower(), startswith() and concatenation are computed as Python computes *)
(* them.  Optional[str] is None == <<>> or Some(s) == <<s>>.               *)
(* Every blocking external call (subprocess.run, boto3) is one step whose  *)
(* outcome is chosen by the environment.                                   *)
(***************************************************************************)
EXTENDS Integers, Sequences, FiniteSets, TLC

VARIABLES
    pc,               \* position of the single thread of main()
    dry_run,          \* args.dry_run
    wsArg,            \* args.workspace (Optional[str])
    workspace,        \* self.workspace
    project_name,     \* self.project_name
    resource_prefix,  \* self.resource_prefix
    listing,          \* response of list_buckets, until the next call is made
    roles,            \* the account's roles, in the order list_roles pages them
    fetched,          \* how many of `roles` the paginator has returned so far
    page,             \* pages of roles fetched so far by the paginator
    s3_bucket,        \* local s3_bucket of get_import_commands (Optional)
    iam_role,         \* local iam_role of get_import_commands (Optional)
    commands,         \* local commands of run_import
    i,                \* position of the for loop of run_import (1-based)
    calls,            \* external calls started so far, in order
    outcomes,         \* what each call of `calls` came back with
    report,           \* lines printed so far (tagged)
    exitCode,         \* process exit status, NoExit while running
    interrupted       \* a KeyboardInterrupt was delivered during the run

vars == <<pc, dry_run, wsArg, workspace, project_name, resource_prefix,
          listing, roles, fetched, page, s3_bucket, iam_role, commands, i,
          calls, outcomes, report, exitCode, interrupted>>

----
\* Bounds of the model

MaxBuckets == 2   \* buckets in the account
MaxRoles == 3     \* roles in the account

----
\* Python values

None == <<>>
Some(s) == <<s>>
NoExit == -1

\* Python truthiness of an Optional[str]: None and "" are falsy
Truthy(opt) == opt # None /\ opt[1] # <<>>

Whitespace == {" ", "\n", "\t"}

RECURSIVE LStripChars(_, _)
LStripChars(s, cs) ==
    IF s # <<>> /\ Head(s) \in cs THEN LStripChars(Tail(s), cs) ELSE s

RECURSIVE RStripChars(_, _)
RStripChars(s, cs) ==
    IF s # <<>> /\ s[Len(s)] \in cs
    THEN RStripChars(SubSeq(s, 1, Len(s) - 1), cs)
    ELSE s

\* str.strip(chars)
StripChars(s, cs) == RStripChars(LStripChars(s, cs), cs)

\* str.strip()
Strip(s) == StripChars(s, Whitespace)

LowerChar(c) ==
    CASE c = "T" -> "t"
      [] c = "R" -> "r"
      [] c = "U" -> "u"
      [] c = "E" -> "e"
      [] c = "F" -> "f"
      [] c = "A" -> "a"
      [] c = "L" -> "l"
      [] c = "S" -> "s"
      [] OTHER -> c

\* str.lower()
Lower(s) == [k \in 1..Len(s) |-> LowerChar(s[k])]

\* str.startswith(prefix)
StartsWith(s, prefix) ==
    Len(s) >= Len(prefix) /\ SubSeq(s, 1, Len(prefix)) = prefix

----
\* String literals of the program

DefaultProject == <<"t","e","r","r","a","f","o","r","m","-","c","o","r","e">>
StateFiles == <<"-","s","t","a","t","e","-","f","i","l","e","s","-">>
PolicySuffix == <<":","t","e","r","r","a","f","o","r","m","-","s","t","a","t",
                  "e","-","f","i","l","e","s","-","p","o","l","i","c","y">>
TrueText == <<"t","r","u","e">>

\* An f-string with the two identities swapped
ResolvePrefix_WorkspaceFirst(project, ws) == ws \o StateFiles \o project

\* f"{self.project_name}-state-files-{self.workspace}"
ResolvePrefix(project, ws) == project \o StateFiles \o ws

----
\* What the environment can answer

\* args.workspace: absent, empty, "w"
WorkspaceArgs == {None, Some(<<>>), Some(<<"w">>)}

\* stdout of `terraform workspace show`
WorkspaceStdouts == {<<"w","x","\n">>}

\* stdout of `terraform console` for var.project_name
ProjectStdouts == {<<"\"","p","\"","\n">>, <<"\n">>}

\* stdout of `terraform console` for var.import_existing_resources
GateStdouts == {<<"t","r","u","e","\n">>, <<"f","a","l","s","e","\n">>,
                <<" ","T","r","u","e","\n">>,
                <<"\"","t","r","u","e","\"","\n">>, <<>>}

\* stderr of a failed `terraform import`
Stderrs == {<<"E","1">>}

\* Names of buckets and roles that exist in the account: two that share the
\* prefix of project p, workspace w (only the second has the prefix of
\* workspace wx), and one that is the prefix of the default project,
\* workspace w (one character short of the prefix of workspace wx)
Names == {<<"p">> \o StateFiles \o <<"w","-","a">>,
          <<"p">> \o StateFiles \o <<"w","x">>,
          DefaultProject \o StateFiles \o <<"w">>}

RECURSIVE SeqsUpTo(_, _)
SeqsUpTo(S, n) ==
    IF n = 0 THEN {<<>>}
    ELSE LET shorter == SeqsUpTo(S, n - 1)
         IN shorter \cup {Append(q, x) : q \in {r \in shorter : Len(r) = n - 1}, x \in S}

BucketListings == SeqsUpTo(Names, MaxBuckets)
RoleListings == SeqsUpTo(Names, MaxRoles)

\* Outcomes of subprocess.run(..., check=True)
Ok(out) == [kind |-> "ok", text |-> out]
NonZero(err) == [kind |-> "nonzero", text |-> err]     \* CalledProcessError
LaunchError == [kind |-> "oserror", text |-> <<>>]     \* FileNotFoundError etc.
Interrupt == [kind |-> "interrupt", text |-> <<>>]     \* KeyboardInterrupt

\* Outcomes of a boto3 listing call
Listed(names, more) == [kind |-> "ok", names |-> names, more |-> more]
ClientError == [kind |-> "error", names |-> <<>>, more |-> FALSE]
ListInterrupt == [kind |-> "interrupt", names |-> <<>>, more |-> FALSE]

\* Discovery without its try/except
IsException_Nothing(kind) == FALSE

\* What `except Exception` catches: every error, but not KeyboardInterrupt
IsException(kind) == kind \in {"nonzero", "oserror", "error"}

\* A handler that is `except Exception` instead
IsCalledProcessError_AnyError(kind) == kind \in {"nonzero", "oserror"}

\* What `except subprocess.CalledProcessError` catches
IsCalledProcessError(kind) == kind = "nonzero"

----
\* Log entries

Call(op, addr, id, n) == [op |-> op, addr |-> addr, id |-> id, n |-> n]
Outcome(kind, text) == [kind |-> kind, text |-> text]
Line(tag, addr, text) == [tag |-> tag, addr |-> addr, text |-> text]

----
\* Pure parts of TerraformImporter

\* A constructor that always asks terraform for the workspace
NeedsWorkspaceQuery_Always(arg) == TRUE

\* `workspace or self._get_current_workspace()`: the query runs only for a
\* falsy argument
NeedsWorkspaceQuery(arg) == ~Truthy(arg)

\* A lookup without the `if project_name else` fallback
ProjectNameFrom_NoFallback(out) ==
    IF out.kind = "ok"
    THEN StripChars(Strip(out.text), {"\""})
    ELSE DefaultProject

\* _get_project_name, given what the console call came back with.  The bare
\* `except:` turns every exception, KeyboardInterrupt included, into the
\* default.
ProjectNameFrom(out) ==
    IF out.kind = "ok"
    THEN LET name == StripChars(Strip(out.text), {"\""})
         IN IF name # <<>> THEN name ELSE DefaultProject
    ELSE DefaultProject

\* A gate whose handler answers True
ImportNeededFrom_ExceptTrue(out) ==
    IF out.kind = "ok"
    THEN Lower(Strip(out.text)) = TrueText
    ELSE TRUE

\* check_import_needed, given what the console call came back with.  The bare
\* `except:` turns every exception, KeyboardInterrupt included, into False.
ImportNeededFrom(out) ==
    IF out.kind = "ok"
    THEN Lower(Strip(out.text)) = TrueText
    ELSE FALSE

\* A loop without the early return: the last match of the response wins
RECURSIVE FirstMatch_Last(_, _)
FirstMatch_Last(names, prefix) ==
    IF names = <<>> THEN None
    ELSE IF StartsWith(names[Len(names)], prefix) THEN Some(names[Len(names)])
    ELSE FirstMatch_Last(SubSeq(names, 1, Len(names) - 1), prefix)

\* The for loops of discover_s3_bucket / discover_iam_role over one response
RECURSIVE FirstMatch(_, _)
FirstMatch(names, prefix) ==
    IF names = <<>> THEN None
    ELSE IF StartsWith(Head(names), prefix) THEN Some(Head(names))
    ELSE FirstMatch(Tail(names), prefix)

\* A builder that returns early only when the bucket is missing
BuildPlan_Partial(bucket, role) ==
    IF ~Truthy(bucket) THEN <<>>
    ELSE << <<"aws_s3_bucket.terraform_state", bucket[1]>>,
            <<"aws_s3_bucket_versioning.terraform_state_versioning", bucket[1]>>,
            <<"aws_s3_bucket_server_side_encryption_configuration.terraform_state_encryption", bucket[1]>>,
            <<"aws_s3_bucket_public_access_block.terraform_state_pab", bucket[1]>>,
            <<"aws_s3_bucket_lifecycle_configuration.terraform_state_lifecycle", bucket[1]>> >>
         \o (IF ~Truthy(role) THEN <<>>
             ELSE << <<"aws_iam_role.terraform_state_role", role[1]>>,
                     <<"aws_iam_role_policy.terraform_state_policy", role[1] \o PolicySuffix>> >>)

\* A builder that binds the role policy to the bare role id
BuildPlan_BarePolicyId(bucket, role) ==
    IF ~Truthy(bucket) THEN <<>>
    ELSE IF ~Truthy(role) THEN <<>>
    ELSE << <<"aws_s3_bucket.terraform_state", bucket[1]>>,
            <<"aws_s3_bucket_versioning.terraform_state_versioning", bucket[1]>>,
            <<"aws_s3_bucket_server_side_encryption_configuration.terraform_state_encryption", bucket[1]>>,
            <<"aws_s3_bucket_public_access_block.terraform_state_pab", bucket[1]>>,
            <<"aws_s3_bucket_lifecycle_configuration.terraform_state_lifecycle", bucket[1]>>,
            <<"aws_iam_role.terraform_state_role", role[1]>>,
            <<"aws_iam_role_policy.terraform_state_policy", role[1]>> >>

\* get_import_commands after the two discoveries
BuildPlan(bucket, role) ==
    IF ~Truthy(bucket) THEN <<>>
    ELSE IF ~Truthy(role) THEN <<>>
    ELSE << <<"aws_s3_bucket.terraform_state", bucket[1]>>,
            <<"aws_s3_bucket_versioning.terraform_state_versioning", bucket[1]>>,
            <<"aws_s3_bucket_server_side_encryption_configuration.terraform_state_encryption", bucket[1]>>,
            <<"aws_s3_bucket_public_access_block.terraform_state_pab", bucket[1]>>,
            <<"aws_s3_bucket_lifecycle_configuration.terraform_state_lifecycle", bucket[1]>>,
            <<"aws_iam_role.terraform_state_role", role[1]>>,
            <<"aws_iam_role_policy.terraform_state_policy", role[1] \o PolicySuffix>> >>

\* The warning get_import_commands prints before returning an empty list
PlanWarnings(bucket, role) ==
    IF ~Truthy(bucket) THEN <<Line("warn_no_bucket", "", <<>>)>>
    ELSE IF ~Truthy(role) THEN <<Line("warn_no_role", "", <<>>)>>
    ELSE <<>>

\* A loop without the try/except around the import call
LoopContinues_OnlyOnSuccess(kind) == kind = "ok"

\* A loop whose handler is a bare `except:`
LoopContinues_AlsoInterrupted(kind) == kind \in {"ok", "nonzero", "interrupt"}

\* The loop of run_import goes on after an import call exactly when the call
\* returned or raised CalledProcessError
LoopContinues(kind) == kind = "ok" \/ IsCalledProcessError(kind)

\* A loop body that ignores the dry_run flag
Invokes_Always(dry) == TRUE

\* The branch of the loop body that calls subprocess.run
Invokes(dry) == ~dry

----
\* Steps

Started(call, kind, text) ==
    /\ calls' = Append(calls, call)
    /\ outcomes' = Append(outcomes, Outcome(kind, text))

\* An exception that reaches main(): both handlers print and sys.exit(1)
RaiseToMain(kind, lines) ==
    /\ pc' = "done"
    /\ exitCode' = 1
    /\ report' = report \o lines \o
                 <<Line(IF kind = "interrupt" THEN "interrupted" ELSE "error", "", <<>>)>>

\* main() returns: the interpreter exits with status 0
ReturnToMain(lines) ==
    /\ pc' = "done"
    /\ exitCode' = 0
    /\ report' = report \o lines

Init ==
    /\ pc = "init"
    /\ dry_run \in BOOLEAN
    /\ wsArg \in WorkspaceArgs
    /\ workspace = <<>>
    /\ project_name = <<>>
    /\ resource_prefix = <<>>
    /\ listing = <<>>
    /\ roles = <<>>
    /\ fetched = 0
    /\ page = 0
    /\ s3_bucket = None
    /\ iam_role = None
    /\ commands = <<>>
    /\ i = 1
    /\ calls = <<>>
    /\ outcomes = <<>>
    /\ report = <<>>
    /\ exitCode = NoExit
    /\ interrupted = FALSE

\* __init__, line 29, left operand of `or`
UseSuppliedWorkspace ==
    /\ pc = "init"
    /\ ~NeedsWorkspaceQuery(wsArg)
    /\ workspace' = wsArg[1]
    /\ pc' = "session"
    /\ UNCHANGED <<dry_run, wsArg, project_name, resource_prefix, listing, roles, fetched, page,
                   s3_bucket, iam_role, commands, i, calls, outcomes, report,
                   exitCode, interrupted>>

\* __init__, line 29, right operand of `or`: _get_current_workspace
GetCurrentWorkspace ==
    /\ pc = "init"
    /\ NeedsWorkspaceQuery(wsArg)
    /\ \E out \in {Ok(s) : s \in WorkspaceStdouts} \cup {NonZero(<<>>), LaunchError, Interrupt} :
        /\ Started(Call("workspace show", "", <<>>, 0), out.kind, out.text)
        /\ interrupted' = (interrupted \/ out.kind = "interrupt")
        /\ IF out.kind = "ok"
           THEN /\ workspace' = Strip(out.text)
                /\ pc' = "session"
                /\ UNCHANGED <<report, exitCode>>
           ELSE /\ UNCHANGED workspace
                /\ IF IsCalledProcessError(out.kind)
                   THEN \* sys.exit(1): SystemExit is not an Exception
                        /\ pc' = "done"
                        /\ exitCode' = 1
                        /\ report' = Append(report, Line("ws_error", "", <<>>))
                   ELSE RaiseToMain(out.kind, <<>>)
    /\ UNCHANGED <<dry_run, wsArg, project_name, resource_prefix, listing, roles, fetched, page,
                   s3_bucket, iam_role, commands, i>>

\* __init__, lines 30-32: boto3.Session and the two clients
CreateSession ==
    /\ pc = "session"
    /\ \E ok \in BOOLEAN :
        IF ok
        THEN pc' = "project" /\ UNCHANGED <<report, exitCode>>
        ELSE RaiseToMain("error", <<>>)
    /\ UNCHANGED <<dry_run, wsArg, workspace, project_name, resource_prefix,
                   listing, roles, fetched, page, s3_bucket, iam_role, commands, i, calls,
                   outcomes, interrupted>>

\* __init__, lines 35-36: _get_project_name and the prefix
GetProjectName ==
    /\ pc = "project"
    /\ \E out \in {Ok(s) : s \in ProjectStdouts} \cup {NonZero(<<>>), LaunchError, Interrupt} :
        /\ Started(Call("console var.project_name", "", <<>>, 0), out.kind, out.text)
        /\ interrupted' = (interrupted \/ out.kind = "interrupt")
        /\ project_name' = ProjectNameFrom(out)
        /\ resource_prefix' = ResolvePrefix(project_name', workspace)
    /\ pc' = "gate"
    /\ UNCHANGED <<dry_run, wsArg, workspace, listing, roles, fetched, page, s3_bucket, iam_role,
                   commands, i, report, exitCode>>

\* run_import, lines 146-153: check_import_needed and the early return
CheckImportNeeded ==
    /\ pc = "gate"
    /\ \E out \in {Ok(s) : s \in GateStdouts} \cup {NonZero(<<>>), LaunchError, Interrupt} :
        /\ Started(Call("console var.import_existing_resources", "", <<>>, 0), out.kind, out.text)
        /\ interrupted' = (interrupted \/ out.kind = "interrupt")
        /\ IF ImportNeededFrom(out)
           THEN /\ pc' = "s3"
                /\ report' = report \o <<Line("starting", "", workspace),
                                         Line("prefix", "", resource_prefix)>>
                /\ UNCHANGED exitCode
           ELSE ReturnToMain(<<Line("not_needed", "", <<>>)>>)
    /\ UNCHANGED <<dry_run, wsArg, workspace, project_name, resource_prefix,
                   listing, roles, fetched, page, s3_bucket, iam_role, commands, i>>

\* A get_import_commands that returns as soon as no bucket was found
DiscoverS3Bucket_ReturnsEarly ==
    /\ pc = "s3"
    /\ \E out \in {Listed(l, FALSE) : l \in BucketListings} \cup {ClientError, ListInterrupt} :
        /\ Started(Call("list_buckets", "", <<>>, 0), out.kind, <<>>)
        /\ interrupted' = (interrupted \/ out.kind = "interrupt")
        /\ listing' = out.names
        /\ IF out.kind = "ok"
           THEN LET found == FirstMatch(out.names, resource_prefix)
                IN /\ s3_bucket' = found
                   /\ IF found # None
                      THEN /\ report' = Append(report, Line("found_bucket", "", found[1]))
                           /\ pc' = "iam"
                           /\ UNCHANGED exitCode
                      ELSE ReturnToMain(<<Line("warn_no_bucket", "", <<>>),
                                          Line("none_found", "", <<>>)>>)
           ELSE IF IsException(out.kind)
           THEN /\ s3_bucket' = None
                /\ ReturnToMain(<<Line("err_bucket", "", <<>>),
                                  Line("warn_no_bucket", "", <<>>),
                                  Line("none_found", "", <<>>)>>)
           ELSE /\ UNCHANGED s3_bucket
                /\ RaiseToMain(out.kind, <<>>)
    /\ UNCHANGED <<dry_run, wsArg, workspace, project_name, resource_prefix,
                   roles, fetched, page, iam_role, commands, i>>

\* get_import_commands, line 102: discover_s3_bucket
DiscoverS3Bucket ==
    /\ pc = "s3"
    /\ \E out \in {Listed(l, FALSE) : l \in BucketListings} \cup {ClientError, ListInterrupt} :
        /\ Started(Call("list_buckets", "", <<>>, 0), out.kind, <<>>)
        /\ interrupted' = (interrupted \/ out.kind = "interrupt")
        /\ listing' = out.names
        /\ IF out.kind = "ok"
           THEN LET found == FirstMatch(out.names, resource_prefix)
                IN /\ s3_bucket' = found
                   /\ report' = report \o
                        (IF found # None THEN <<Line("found_bucket", "", found[1])>> ELSE <<>>)
                   /\ pc' = "iam"
                   /\ UNCHANGED exitCode
           ELSE IF IsException(out.kind)
           THEN /\ s3_bucket' = None
                /\ report' = Append(report, Line("err_bucket", "", <<>>))
                /\ pc' = "iam"
                /\ UNCHANGED exitCode
           ELSE /\ UNCHANGED s3_bucket
                /\ RaiseToMain(out.kind, <<>>)
    /\ UNCHANGED <<dry_run, wsArg, workspace, project_name, resource_prefix,
                   roles, fetched, page, iam_role, commands, i>>

\* get_import_commands, lines 103-128, and run_import, lines 155-162, once
\* discover_iam_role has returned `role`
FinishDiscovery(role, lines) ==
    /\ iam_role' = role
    /\ commands' = BuildPlan(s3_bucket, role)
    /\ IF commands' = <<>>
       THEN ReturnToMain(lines \o PlanWarnings(s3_bucket, role) \o
                         <<Line("none_found", "", <<>>)>>)
       ELSE /\ pc' = "loop"
            /\ report' = report \o lines \o <<Line("found_n", "", <<>>)>>
            /\ UNCHANGED exitCode

\* discover_iam_role: one page of the paginator, and what follows it.  The
\* account's roles are fixed when the paginator starts; every fetch returns
\* the next `size` of them, fails, or is interrupted.
DiscoverIamRole ==
    /\ pc = "iam"
    /\ \E all \in IF page = 0 THEN RoleListings ELSE {roles} :
       \E size \in IF Len(all) = fetched THEN {0} ELSE 1..(Len(all) - fetched) :
       \E kind \in {"ok", "error", "interrupt"} :
        LET names == SubSeq(all, fetched + 1, fetched + size)
            more == fetched + size < Len(all)
            found == FirstMatch(names, resource_prefix)
        IN /\ Started(Call("list_roles", "", <<>>, page + 1), kind, <<>>)
           /\ interrupted' = (interrupted \/ kind = "interrupt")
           /\ listing' = <<>>
           /\ roles' = all
           /\ page' = page + 1
           /\ IF kind = "ok"
              THEN /\ fetched' = fetched + size
                   /\ IF found # None
                      THEN FinishDiscovery(found, <<Line("found_role", "", found[1])>>)
                      ELSE IF more
                      THEN /\ pc' = "iam"
                           /\ UNCHANGED <<iam_role, commands, report, exitCode>>
                      ELSE FinishDiscovery(None, <<>>)
              ELSE /\ UNCHANGED fetched
                   /\ IF IsException(kind)
                      THEN FinishDiscovery(None, <<Line("err_role", "", <<>>)>>)
                      ELSE /\ UNCHANGED <<iam_role, commands>>
                           /\ RaiseToMain(kind, <<>>)
    /\ UNCHANGED <<dry_run, wsArg, workspace, project_name, resource_prefix,
                   s3_bucket, i>>

\* End of one iteration of the for loop of run_import
NextIteration(lines) ==
    /\ i' = i + 1
    /\ IF i = Len(commands)
       THEN ReturnToMain(lines)
       ELSE /\ pc' = "loop"
            /\ report' = report \o lines
            /\ UNCHANGED exitCode

\* The response and the paginator of the discover_* calls are locals that are
\* gone once get_import_commands has returned
DiscoveryLocalsGone ==
    /\ listing' = <<>>
    /\ roles' = <<>>
    /\ fetched' = 0
    /\ page' = 0

\* run_import, lines 164-169: one iteration in dry-run mode
ImportDryRun ==
    /\ pc = "loop"
    /\ ~Invokes(dry_run)
    /\ NextIteration(<<Line("dry_run", commands[i][1], commands[i][2])>>)
    /\ DiscoveryLocalsGone
    /\ UNCHANGED <<dry_run, wsArg, workspace, project_name, resource_prefix,
                   s3_bucket, iam_role, commands, calls, outcomes, interrupted>>

\* A loop body that prints the success line after the try statement
ImportApply_AlwaysReportsSuccess ==
    /\ pc = "loop"
    /\ Invokes(dry_run)
    /\ \E out \in {Ok(<<>>), LaunchError, Interrupt} \cup {NonZero(e) : e \in Stderrs} :
        LET running == Line("running", commands[i][1], commands[i][2])
        IN /\ Started(Call("import", commands[i][1], commands[i][2], i), out.kind, out.text)
           /\ interrupted' = (interrupted \/ out.kind = "interrupt")
           /\ IF LoopContinues(out.kind)
              THEN NextIteration(
                        (IF out.kind = "ok"
                         THEN <<running>>
                         ELSE <<running, Line("failed", commands[i][1], out.text)>>)
                        \o <<Line("imported", commands[i][1], <<>>)>>)
              ELSE /\ UNCHANGED i
                   /\ RaiseToMain(out.kind, <<running>>)
    /\ DiscoveryLocalsGone
    /\ UNCHANGED <<dry_run, wsArg, workspace, project_name, resource_prefix,
                   s3_bucket, iam_role, commands>>

\* run_import, lines 164-182: one iteration that runs `terraform import`
ImportApply ==
    /\ pc = "loop"
    /\ Invokes(dry_run)
    /\ \E out \in {Ok(<<>>), LaunchError, Interrupt} \cup {NonZero(e) : e \in Stderrs} :
        LET running == Line("running", commands[i][1], commands[i][2])
        IN /\ Started(Call("import", commands[i][1], commands[i][2], i), out.kind, out.text)
           /\ interrupted' = (interrupted \/ out.kind = "interrupt")
           /\ IF LoopContinues(out.kind)
              THEN NextIteration(<<running,
                        IF out.kind = "ok"
                        THEN Line("imported", commands[i][1], <<>>)
                        ELSE Line("failed", commands[i][1], out.text)>>)
              ELSE /\ UNCHANGED i
                   /\ RaiseToMain(out.kind, <<running>>)
    /\ DiscoveryLocalsGone
    /\ UNCHANGED <<dry_run, wsArg, workspace, project_name, resource_prefix,
                   s3_bucket, iam_role, commands>>

Next ==
    \/ UseSuppliedWorkspace
    \/ GetCurrentWorkspace
    \/ CreateSession
    \/ GetProjectName
    \/ CheckImportNeeded
    \/ DiscoverS3Bucket
    \/ DiscoverIamRole
    \/ ImportDryRun
    \/ ImportApply

Spec == Init /\ [][Next]_vars

TypeOK ==
    /\ pc \in {"init", "session", "project", "gate", "s3", "iam", "loop", "done"}
    /\ exitCode \in {NoExit, 0, 1}
    /\ (pc = "done") = (exitCode # NoExit)
    /\ Len(calls) = Len(outcomes)
    /\ i \in 1..8

----
\* Observations on the logs

Paired == [k \in 1..Len(calls) |-> [call |-> calls[k], out |-> outcomes[k]]]
IsImportEntry(z) == z.call.op = "import"
ImportLog == SelectSeq(Paired, IsImportEntry)
CallsOf(op) == {k \in 1..Len(calls) : calls[k].op = op}
LastCallIs(op, kind) ==
    /\ calls # <<>>
    /\ calls[Len(calls)].op = op
    /\ outcomes[Len(calls)].kind = kind
IsDryRunLine(l) == l.tag = "dry_run"
DryRunLines == SelectSeq(report, IsDryRunLine)

\* name has prefix as a literal string prefix, character by character
HasPrefix(name, prefix) ==
    /\ Len(name) >= Len(prefix)
    /\ \A j \in 1..Len(prefix) : name[j] = prefix[j]

\* result is the first name of names, in order, that has the prefix, and None
\* exactly when there is none
IsFirstMatch(result, names, prefix) ==
    \/ /\ result = None
       /\ \A k \in 1..Len(names) : ~HasPrefix(names[k], prefix)
    \/ \E k \in 1..Len(names) :
        /\ result = Some(names[k])
        /\ HasPrefix(names[k], prefix)
        /\ \A j \in 1..(k - 1) : ~HasPrefix(names[j], prefix)

BucketAddresses ==
    {"aws_s3_bucket.terraform_state",
     "aws_s3_bucket_versioning.terraform_state_versioning",
     "aws_s3_bucket_server_side_encryption_configuration.terraform_state_encryption",
     "aws_s3_bucket_public_access_block.terraform_state_pab",
     "aws_s3_bucket_lifecycle_configuration.terraform_state_lifecycle"}
RoleAddresses ==
    {"aws_iam_role.terraform_state_role",
     "aws_iam_role_policy.terraform_state_policy"}

----
\* C1: in Apply mode with a non-empty plan, the import calls made so far are
\* the plan's entries in plan order, each at most once; a call that returned
\* or exited non-zero at position k < n is followed by the call for k + 1
\* (the loop is still running or that call was made); and a run whose import
\* calls all returned or exited non-zero has made exactly one call per entry.
C1_ApplyInvokesEveryEntryOnce ==
    (~dry_run /\ commands # <<>>) =>
        /\ Len(ImportLog) <= Len(commands)
        /\ \A k \in 1..Len(ImportLog) :
            /\ ImportLog[k].call.addr = commands[k][1]
            /\ ImportLog[k].call.id = commands[k][2]
            /\ (ImportLog[k].out.kind \in {"ok", "nonzero"} /\ k < Len(commands))
                    => (Len(ImportLog) > k \/ (pc = "loop" /\ i = k + 1))
        /\ (pc = "done" /\ \A k \in 1..Len(ImportLog) :
                                ImportLog[k].out.kind \in {"ok", "nonzero"})
                => Len(ImportLog) = Len(commands)

\* An Apply run that made all seven calls although the first and the fourth
\* exited non-zero
C1_Witness ==
    /\ pc = "done"
    /\ ~dry_run
    /\ Len(ImportLog) = 7
    /\ ImportLog[1].out.kind = "nonzero"
    /\ ImportLog[4].out.kind = "nonzero"
    /\ ImportLog[7].out.kind = "ok"

\* C2: whenever the bucket, the role or both were not found the plan is
\* empty, and no plan holds bucket operations without role operations or
\* role operations without bucket operations.
C2_NoPartialPlan ==
    /\ (s3_bucket = None \/ iam_role = None) => commands = <<>>
    /\ (\E k \in 1..Len(commands) : commands[k][1] \in BucketAddresses)
            <=> (\E k \in 1..Len(commands) : commands[k][1] \in RoleAddresses)

\* Discovery returned with a bucket and without a role
C2_Witness ==
    /\ pc = "done"
    /\ LastCallIs("list_roles", "ok")
    /\ s3_bucket # None
    /\ iam_role = None
    /\ commands = <<>>

\* C3: once discovery has found both ids, the plan is the seven operations
\* bucket, versioning, encryption, public-access-block, lifecycle (bound to
\* the bucket id), role (bound to the role id) and role policy (bound to the
\* role id followed by ":terraform-state-files-policy"), in this order.
C3_SevenOperationsInOrder ==
    (pc \in {"loop", "done"} /\ s3_bucket # None /\ iam_role # None) =>
        /\ Len(commands) = 7
        /\ [k \in 1..7 |-> commands[k][1]] =
             <<"aws_s3_bucket.terraform_state",
               "aws_s3_bucket_versioning.terraform_state_versioning",
               "aws_s3_bucket_server_side_encryption_configuration.terraform_state_encryption",
               "aws_s3_bucket_public_access_block.terraform_state_pab",
               "aws_s3_bucket_lifecycle_configuration.terraform_state_lifecycle",
               "aws_iam_role.terraform_state_role",
               "aws_iam_role_policy.terraform_state_policy">>
        /\ \A k \in 1..5 : commands[k][2] = s3_bucket[1]
        /\ commands[6][2] = iam_role[1]
        /\ commands[7][2] = iam_role[1] \o
             <<":","t","e","r","r","a","f","o","r","m","-","s","t","a","t","e",
               "-","f","i","l","e","s","-","p","o","l","i","c","y">>

\* Project p, workspace w, bucket p-state-files-w-a, role p-state-files-wx
C3_Witness ==
    /\ pc = "loop"
    /\ i = 1
    /\ s3_bucket = Some(<<"p">> \o StateFiles \o <<"w","-","a">>)
    /\ iam_role = Some(<<"p">> \o StateFiles \o <<"w","x">>)
    /\ Len(commands) = 7

\* C4: in DryRun mode no import call is ever made, and a finished run has
\* reported every plan entry, in order.
C4_DryRunNeverInvokes ==
    dry_run =>
        /\ CallsOf("import") = {}
        /\ (pc = "done" /\ commands # <<>>) =>
              [k \in 1..Len(DryRunLines) |-> <<DryRunLines[k].addr, DryRunLines[k].text>>]
                  = commands

\* A DryRun run that went through a plan of seven entries
C4_Witness ==
    /\ dry_run
    /\ pc = "done"
    /\ Len(commands) = 7
    /\ Len(DryRunLines) = 7

\* C5: when the query of var.import_existing_resources fails or prints
\* anything but true (surrounding whitespace and case aside), that query is
\* the last external call of the run: no enumeration, no import, and
\* run_import returns (exit status 0), in DryRun and in Apply mode.
C5_GateClosedIsNoOp ==
    \A k \in CallsOf("console var.import_existing_resources") :
        ~(outcomes[k].kind = "ok" /\ Lower(Strip(outcomes[k].text)) = TrueText) =>
            /\ Len(calls) = k
            /\ pc = "done"
            /\ exitCode = 0
            /\ CallsOf("list_buckets") = {}
            /\ CallsOf("list_roles") = {}
            /\ CallsOf("import") = {}
            /\ commands = <<>>

\* An Apply run whose flag query exited non-zero
C5_Witness ==
    /\ ~dry_run
    /\ pc = "done"
    /\ LastCallIs("console var.import_existing_resources", "nonzero")
    /\ report[Len(report)].tag = "not_needed"

\* C6: a finished run has exit status 1 exactly when it was interrupted or
\* hit an error that reached main() (or the fatal workspace error), and exit
\* status 0 otherwise.
C6_ExitOneIffInterruptedOrError ==
    pc = "done" =>
        (exitCode = 1 <=>
            (interrupted \/ \E k \in 1..Len(report) : report[k].tag \in {"error", "ws_error"}))

\* C7: an error of list_buckets or of a page of list_roles leaves that kind
\* not found, the other kind is enumerated all the same, the plan stays
\* empty, no import call is made, and unless an interrupt follows the run
\* returns with exit status 0.
C7_EnumerationErrorDegrades ==
    \A k \in 1..Len(calls) :
        outcomes[k].kind = "error" =>
            /\ calls[k].op \in {"list_buckets", "list_roles"}
            /\ calls[k].op = "list_buckets" =>
                  /\ s3_bucket = None
                  /\ IF Len(calls) = k THEN pc = "iam" ELSE calls[k + 1].op = "list_roles"
            /\ calls[k].op = "list_roles" =>
                  /\ iam_role = None
                  /\ CallsOf("list_buckets") # {}
                  /\ Len(calls) = k
                  /\ pc = "done"
            /\ commands = <<>>
            /\ CallsOf("import") = {}
            /\ (pc = "done" /\ outcomes[Len(calls)].kind # "interrupt") => exitCode = 0

\* list_buckets failed, and then the second page of list_roles failed
C7_Witness ==
    /\ pc = "done"
    /\ exitCode = 0
    /\ \E k \in CallsOf("list_buckets") : outcomes[k].kind = "error"
    /\ LastCallIs("list_roles", "error")
    /\ calls[Len(calls)].n = 2

\* C8: a supplied (non-empty) --workspace is the workspace and the query is
\* not made; otherwise the query is the first call and is made once, and if
\* it does not return the run is over with exit status 1 and no other call.
C8_WorkspaceIdentity ==
    LET supplied == wsArg # None /\ wsArg[1] # <<>>
        queries == CallsOf("workspace show")
    IN /\ supplied =>
            /\ queries = {}
            /\ pc # "init" => workspace = wsArg[1]
       /\ ~supplied =>
            /\ queries = (IF pc = "init" THEN {} ELSE {1})
            /\ (queries # {} /\ outcomes[1].kind # "ok") =>
                  /\ pc = "done"
                  /\ exitCode = 1
                  /\ Len(calls) = 1

\* No --workspace, and terraform could not be launched
C8_Witness ==
    /\ wsArg = None
    /\ pc = "done"
    /\ exitCode = 1
    /\ LastCallIs("workspace show", "oserror")

\* C9: when list_buckets has returned, the bucket found is the first listed
\* name with the prefix; when the role paginator has returned, the role found
\* is the first of the account's roles, in page order, with the prefix; None
\* exactly when no listed name has the prefix.
C9_FirstMatchInListingOrder ==
    /\ (pc = "iam" /\ LastCallIs("list_buckets", "ok"))
            => IsFirstMatch(s3_bucket, listing, resource_prefix)
    /\ (pc \in {"loop", "done"} /\ page >= 1 /\ LastCallIs("list_roles", "ok"))
            => IsFirstMatch(iam_role, roles, resource_prefix)

\* Three roles over two pages or more; the first has no prefix, the second
\* and the third are different names that both have it
C9_Witness ==
    /\ pc = "loop"
    /\ LastCallIs("list_roles", "ok")
    /\ page >= 2
    /\ Len(roles) = 3
    /\ ~HasPrefix(roles[1], resource_prefix)
    /\ HasPrefix(roles[3], resource_prefix)
    /\ roles[2] # roles[3]
    /\ iam_role = Some(roles[2])

\* C10: when the query of var.project_name cannot be launched, exits non-zero
\* or prints nothing but whitespace, the project is terraform-core, the
\* prefix is terraform-core-state-files-{workspace}, and the next thing the
\* run does is the query of var.import_existing_resources.
C10_ProjectLookupFallsBack ==
    \A k \in CallsOf("console var.project_name") :
        (\/ outcomes[k].kind \in {"oserror", "nonzero"}
         \/ /\ outcomes[k].kind = "ok"
            /\ \A j \in 1..Len(outcomes[k].text) : outcomes[k].text[j] \in Whitespace) =>
            /\ project_name = <<"t","e","r","r","a","f","o","r","m","-","c","o","r","e">>
            /\ resource_prefix = project_name \o
                   <<"-","s","t","a","t","e","-","f","i","l","e","s","-">> \o workspace
            /\ IF Len(calls) = k
               THEN pc = "gate" /\ exitCode = NoExit
               ELSE calls[k + 1].op = "console var.import_existing_resources"

\* terraform console printed an empty line for workspace wx
C10_Witness ==
    /\ pc = "gate"
    /\ workspace = <<"w","x">>
    /\ LastCallIs("console var.project_name", "ok")
    /\ outcomes[Len(calls)].text = <<"\n">>

\* C11: from the end of construction (the project lookup) on, the prefix is
\* the project identity, the text "-state-files-" and the workspace identity,
\* in this order (so it is determined by the pair), and no later step changes
\* the prefix or the pair: both discovery calls compare with the same value.
C11_PrefixIsFixedFunctionOfPair ==
    /\ [](CallsOf("console var.project_name") # {} =>
            resource_prefix = project_name \o
                <<"-","s","t","a","t","e","-","f","i","l","e","s","-">> \o workspace)
    /\ [][CallsOf("console var.project_name") # {} =>
            /\ resource_prefix' = resource_prefix
            /\ project_name' = project_name
            /\ workspace' = workspace]_vars

\* Both discoveries have run with the prefix p-state-files-wx
C11_Witness ==
    /\ CallsOf("list_buckets") # {}
    /\ CallsOf("list_roles") # {}
    /\ project_name = <<"p">>
    /\ workspace = <<"w","x">>
    /\ resource_prefix = <<"p","-","s","t","a","t","e","-","f","i","l","e","s","-","w","x">>

\* C12: an interrupt delivered during an import call in Apply mode makes that
\* call the last external call of the run (no later import, no compensating
\* call), the calls made before it stay in the log as they were, and the
\* process exits with status 1.
C12_InterruptEndsTheLoop ==
    /\ [](\A k \in CallsOf("import") :
            outcomes[k].kind = "interrupt" =>
                /\ ~dry_run
                /\ Len(calls) = k
                /\ pc = "done"
                /\ exitCode = 1
                /\ report[Len(report)].tag = "interrupted")
    /\ [][/\ Len(calls') >= Len(calls)
          /\ SubSeq(calls', 1, Len(calls)) = calls
          /\ SubSeq(outcomes', 1, Len(outcomes)) = outcomes]_vars

\* Three imports were applied, the fourth was interrupted
C12_Witness ==
    /\ pc = "done"
    /\ exitCode = 1
    /\ Len(ImportLog) = 4
    /\ \A k \in 1..3 : ImportLog[k].out.kind = "ok"
    /\ ImportLog[4].out.kind = "interrupt"

\* C15: an import call that could not be launched is the last external call
\* of the run and the process exits with status 1, whereas after an import
\* call that exited non-zero the run goes on to the next plan entry.
C15_LaunchFailureLeavesTheLoop ==
    \A k \in 1..Len(ImportLog) :
        /\ ImportLog[k].out.kind = "oserror" =>
              /\ Len(ImportLog) = k
              /\ calls[Len(calls)] = ImportLog[k].call
              /\ pc = "done"
              /\ exitCode = 1
              /\ report[Len(report)].tag = "error"
        /\ (ImportLog[k].out.kind = "nonzero" /\ k < Len(commands)) =>
              (Len(ImportLog) > k \/ pc = "loop")

\* The second import exited non-zero, the third could not be launched
C15_Witness ==
    /\ pc = "done"
    /\ exitCode = 1
    /\ Len(ImportLog) = 3
    /\ ImportLog[2].out.kind = "nonzero"
    /\ ImportLog[3].out.kind = "oserror"

\* C13: in a run that has passed the gate, list_buckets is called once and
\* the role paginator is started once (its pages are fetched one after the
\* other, in order), also when no bucket was found; the bucket listing comes
\* first, and every import call comes after the last listing call.  A run cut
\* short by an interrupt has made a prefix of these calls.
C13_DiscoveryOnceAndInOrder ==
    LET buckets == CallsOf("list_buckets")
        pages == CallsOf("list_roles")
        imports == CallsOf("import")
        gate == CallsOf("console var.import_existing_resources")
    IN /\ Cardinality(buckets) <= 1
       /\ \A k \in pages : \A j \in pages : (calls[k].n = calls[j].n) => (k = j)
       /\ \A k \in pages :
            /\ calls[k].n >= 1
            /\ calls[k].n > 1 => (calls[k - 1].op = "list_roles" /\ calls[k - 1].n = calls[k].n - 1)
            /\ calls[k].n = 1 => (calls[k - 1].op = "list_buckets")
       /\ \A k \in buckets : calls[k - 1].op = "console var.import_existing_resources"
       /\ pc \in {"iam", "loop"} => Cardinality(buckets) = 1
       /\ pc = "loop" => pages # {}
       /\ (pc = "done" /\ report # <<>> /\ report[Len(report)].tag # "interrupted"
              /\ \E k \in 1..Len(report) : report[k].tag = "starting")
            => (Cardinality(buckets) = 1 /\ pages # {})
       /\ \A k \in imports :
            /\ pages # {}
            /\ \A j \in buckets \cup pages : j < k
            /\ \A j \in buckets \cup pages : outcomes[j].kind # "interrupt"

\* No bucket was listed with the prefix; the roles were enumerated all the
\* same, over two pages
C13_Witness ==
    /\ pc = "done"
    /\ s3_bucket = None
    /\ \E k \in CallsOf("list_buckets") : outcomes[k].kind = "ok"
    /\ LastCallIs("list_roles", "ok")
    /\ calls[Len(calls)].n = 2
    /\ iam_role # None

\* Lines of the report that state the outcome of a plan entry
IsOutcomeLine(l) == l.tag \in {"dry_run", "imported", "failed"}
OutcomeLines == SelectSeq(report, IsOutcomeLine)
IsReturned(z) == z.out.kind \in {"ok", "nonzero"}

\* C14: the outcome lines of the report follow the plan, entry by entry: in
\* DryRun mode a Skipped-DryRun line with the entry's address and id; in Apply
\* mode one line per import call that returned, Imported exactly when it
\* exited with zero and Failed, with the call's stderr, exactly when it exited
\* non-zero.  A run that returns has one outcome line per plan entry; with an
\* empty plan its last line is "No resources found to import" and it has no
\* outcome line.
C14_OneOutcomePerEntry ==
    /\ Len(OutcomeLines) <= Len(commands)
    /\ \A k \in 1..Len(OutcomeLines) : OutcomeLines[k].addr = commands[k][1]
    /\ dry_run => \A k \in 1..Len(OutcomeLines) :
            /\ OutcomeLines[k].tag = "dry_run"
            /\ OutcomeLines[k].text = commands[k][2]
    /\ ~dry_run =>
            /\ Len(OutcomeLines) = Len(SelectSeq(ImportLog, IsReturned))
            /\ \A k \in 1..Len(OutcomeLines) :
                /\ (OutcomeLines[k].tag = "imported") = (ImportLog[k].out.kind = "ok")
                /\ (OutcomeLines[k].tag = "failed") = (ImportLog[k].out.kind = "nonzero")
                /\ OutcomeLines[k].tag = "failed" => OutcomeLines[k].text = ImportLog[k].out.text
    /\ (pc = "done" /\ exitCode = 0 /\ commands # <<>>) => Len(OutcomeLines) = Len(commands)
    /\ (pc = "done" /\ exitCode = 0 /\ commands = <<>>
            /\ \E k \in 1..Len(report) : report[k].tag = "starting")
         => (report[Len(report)].tag = "none_found" /\ OutcomeLines = <<>>)

\* An Apply run over seven entries: the second failed with E1, the others
\* were imported
C14_Witness ==
    /\ pc = "done"
    /\ ~dry_run
    /\ Len(OutcomeLines) = 7
    /\ OutcomeLines[2].tag = "failed"
    /\ OutcomeLines[2].text = <<"E","1">>
    /\ \A k \in (1..7) \ {2} : OutcomeLines[k].tag = "imported"

====
